---- MODULE Spec2Model ----
(***************************************************************************)
(* Model of nifi/client.go: the JSON-over-HTTP call primitive (JsonCall)   *)
(* and the Create/Get/Update/Delete operations built on it for process     *)
(* groups, processors and connections, plus the processor start/stop shim. *)
(*                                                                         *)
(* The client keeps no state between calls (Client holds only Config and   *)
(* the transport), so one step of Spec is one whole operation applied to a *)
(* caller-supplied argument and a response delivered by the transport; the *)
(* variables record that call.  SessionSpec adds a caller that keeps one   *)
(* in-memory processor across calls and a server that enforces revisions.  *)
(***************************************************************************)
EXTENDS Integers, Sequences, FiniteSets, TLC

VARIABLES
    op,         \* name of the operation of the latest call ("none" before any)
    arg,        \* its argument as it was when the call was made (boxed)
    request,    \* the HTTP request it issued
    response,   \* what c.Client.Do delivered for it
    jsonCall,   \* what JsonCall returned: [err, code, bodyOut]
    err,        \* the error the operation returned
    out,        \* the structure after the call (pointee of the argument),
                \* or the pointer Get returned; Nil when there is none
    processor,  \* SessionSpec: the caller's in-memory processor
    server      \* SessionSpec: the server's record of that processor

vars == <<op, arg, request, response, jsonCall, err, out, processor, server>>

-----------------------------------------------------------------------------
(* Bounds of the model *)

MaxVersion == 2     \* revision versions range over 0..MaxVersion
MaxRels == 2        \* a fetched processor has at most MaxRels relationships

-----------------------------------------------------------------------------
(* Values *)

Host == "host"
ApiPath == "nifi-api"

\* Go's nil interface value / JSON null, as a property value
NullValue == "<null>"

PropertyKeys == {"k1", "k2"}

\* values the caller puts in its maps, and values the server sends
CallerValues == {"v", NullValue}

ServerValues == {"w", NullValue}

RelNames == {"success", "failure"}

Versions == 0 .. MaxVersion

\* interface{}(nil)
Nil == [type |-> "nil"]

Box(type, value) == [type |-> type, value |-> value]

IsNil(x) == x.type = "nil"

\* error values; code is the status code the message of a status error carries
NoError == [kind |-> "nil", code |-> 0]

TransportError == [kind |-> "transport", code |-> 0]

DecodeError == [kind |-> "decode", code |-> 0]

StatusError(code) == [kind |-> "status", code |-> code]

-----------------------------------------------------------------------------
(* In-memory structures (Go field names) and their zero values *)

NewRevision(v) == [Version |-> v]

ZeroPosition == [X |-> 0, Y |-> 0]

\* map[string]interface{}: a nil map has no entries
NilMap == [isNil |-> TRUE, kv |-> <<>>]

MakeMap(f) == [isNil |-> FALSE, kv |-> f]

ZeroProcessGroupComponent ==
    [Id |-> "", ParentGroupId |-> "", Name |-> "", Position |-> ZeroPosition]

ZeroProcessGroup ==
    [Revision |-> NewRevision(0), Component |-> ZeroProcessGroupComponent]

ZeroProcessorConfig ==
    [SchedulingStrategy |-> "", SchedulingPeriod |-> "",
     ConcurrentlySchedulableTaskCount |-> 0,
     Properties |-> NilMap, AutoTerminatedRelationships |-> <<>>]

ZeroProcessorComponent ==
    [Id |-> "", ParentGroupId |-> "", Name |-> "", Type |-> "",
     Position |-> ZeroPosition, State |-> "", Config |-> ZeroProcessorConfig,
     Relationships |-> <<>>]

ZeroProcessor ==
    [Revision |-> NewRevision(0), Component |-> ZeroProcessorComponent]

ZeroConnectionHand == [Type |-> "", Id |-> ""]

ZeroConnectionComponent ==
    [Id |-> "", ParentGroupId |-> "", Source |-> ZeroConnectionHand,
     Destination |-> ZeroConnectionHand, SelectedRelationships |-> <<>>,
     Bends |-> <<>>]

ZeroConnection ==
    [Revision |-> NewRevision(0), Component |-> ZeroConnectionComponent]

-----------------------------------------------------------------------------
(* encoding/json, Encode: struct -> JSON object, following the field tags. *)
(* A JSON object is a record whose domain is the set of members present.   *)

OmitEmpty(name, v) == IF v = "" THEN <<>> ELSE (name :> v)

EncodeRevision(r) == [version |-> r.Version]

EncodePosition(p) == [x |-> p.X, y |-> p.Y]

\* a nil map encodes as null, any other map as an object
EncodeProperties(m) == [null |-> m.isNil, object |-> m.kv]

EncodeProcessGroupComponent(c) ==
    OmitEmpty("id", c.Id) @@
    [parentGroupId |-> c.ParentGroupId, name |-> c.Name,
     position |-> EncodePosition(c.Position)]

EncodeProcessGroup(g) ==
    [revision |-> EncodeRevision(g.Revision),
     component |-> EncodeProcessGroupComponent(g.Component)]

EncodeProcessorRelationship(r) ==
    [name |-> r.Name, autoTerminate |-> r.AutoTerminate]

EncodeProcessorConfig(c) ==
    [schedulingStrategy |-> c.SchedulingStrategy,
     schedulingPeriod |-> c.SchedulingPeriod,
     concurrentlySchedulableTaskCount |-> c.ConcurrentlySchedulableTaskCount,
     properties |-> EncodeProperties(c.Properties),
     autoTerminatedRelationships |-> c.AutoTerminatedRelationships]

EncodeProcessorComponent(c) ==
    OmitEmpty("id", c.Id) @@ OmitEmpty("state", c.State) @@
    [parentGroupId |-> c.ParentGroupId, name |-> c.Name, type |-> c.Type,
     position |-> EncodePosition(c.Position),
     config |-> EncodeProcessorConfig(c.Config),
     relationships |->
        [i \in DOMAIN c.Relationships |->
            EncodeProcessorRelationship(c.Relationships[i])]]

EncodeProcessor(p) ==
    [revision |-> EncodeRevision(p.Revision),
     component |-> EncodeProcessorComponent(p.Component)]

EncodeConnectionHand(h) == [type |-> h.Type, id |-> h.Id]

EncodeConnectionComponent(c) ==
    OmitEmpty("id", c.Id) @@
    [parentGroupId |-> c.ParentGroupId,
     source |-> EncodeConnectionHand(c.Source),
     destination |-> EncodeConnectionHand(c.Destination),
     selectedRelationships |-> c.SelectedRelationships,
     bends |-> [i \in DOMAIN c.Bends |-> EncodePosition(c.Bends[i])]]

EncodeConnection(c) ==
    [revision |-> EncodeRevision(c.Revision),
     component |-> EncodeConnectionComponent(c.Component)]

Encode(x) ==
    CASE x.type = "ProcessGroup" -> EncodeProcessGroup(x.value)
      [] x.type = "Processor" -> EncodeProcessor(x.value)
      [] x.type = "Connection" -> EncodeConnection(x.value)

-----------------------------------------------------------------------------
(* encoding/json, Decode: JSON object -> the struct behind the target      *)
(* pointer.  A member that is present overwrites its field, a field whose  *)
(* member is absent keeps its value, an object decoded into a map adds to  *)
(* the entries the map already has, null makes the map nil.                *)

Has(j, name) == name \in DOMAIN j

DecodeRevision(t, j) ==
    [Version |-> IF Has(j, "version") THEN j.version ELSE t.Version]

DecodePosition(t, j) ==
    [X |-> IF Has(j, "x") THEN j.x ELSE t.X,
     Y |-> IF Has(j, "y") THEN j.y ELSE t.Y]

DecodeProperties(t, j) ==
    IF j.null THEN NilMap ELSE MakeMap(j.object @@ t.kv)

DecodeProcessGroupComponent(t, j) ==
    [Id |-> IF Has(j, "id") THEN j.id ELSE t.Id,
     ParentGroupId |->
        IF Has(j, "parentGroupId") THEN j.parentGroupId ELSE t.ParentGroupId,
     Name |-> IF Has(j, "name") THEN j.name ELSE t.Name,
     Position |->
        IF Has(j, "position") THEN DecodePosition(t.Position, j.position)
        ELSE t.Position]

DecodeProcessGroup(t, j) ==
    [Revision |->
        IF Has(j, "revision") THEN DecodeRevision(t.Revision, j.revision)
        ELSE t.Revision,
     Component |->
        IF Has(j, "component")
        THEN DecodeProcessGroupComponent(t.Component, j.component)
        ELSE t.Component]

DecodeProcessorRelationship(j) ==
    [Name |-> j.name, AutoTerminate |-> j.autoTerminate]

DecodeProcessorConfig(t, j) ==
    [SchedulingStrategy |->
        IF Has(j, "schedulingStrategy") THEN j.schedulingStrategy
        ELSE t.SchedulingStrategy,
     SchedulingPeriod |->
        IF Has(j, "schedulingPeriod") THEN j.schedulingPeriod
        ELSE t.SchedulingPeriod,
     ConcurrentlySchedulableTaskCount |->
        IF Has(j, "concurrentlySchedulableTaskCount")
        THEN j.concurrentlySchedulableTaskCount
        ELSE t.ConcurrentlySchedulableTaskCount,
     Properties |->
        IF Has(j, "properties")
        THEN DecodeProperties(t.Properties, j.properties)
        ELSE t.Properties,
     AutoTerminatedRelationships |->
        IF Has(j, "autoTerminatedRelationships")
        THEN j.autoTerminatedRelationships
        ELSE t.AutoTerminatedRelationships]

DecodeProcessorComponent(t, j) ==
    [Id |-> IF Has(j, "id") THEN j.id ELSE t.Id,
     ParentGroupId |->
        IF Has(j, "parentGroupId") THEN j.parentGroupId ELSE t.ParentGroupId,
     Name |-> IF Has(j, "name") THEN j.name ELSE t.Name,
     Type |-> IF Has(j, "type") THEN j.type ELSE t.Type,
     Position |->
        IF Has(j, "position") THEN DecodePosition(t.Position, j.position)
        ELSE t.Position,
     State |-> IF Has(j, "state") THEN j.state ELSE t.State,
     Config |->
        IF Has(j, "config") THEN DecodeProcessorConfig(t.Config, j.config)
        ELSE t.Config,
     Relationships |->
        IF Has(j, "relationships")
        THEN [i \in DOMAIN j.relationships |->
                DecodeProcessorRelationship(j.relationships[i])]
        ELSE t.Relationships]

DecodeProcessor(t, j) ==
    [Revision |->
        IF Has(j, "revision") THEN DecodeRevision(t.Revision, j.revision)
        ELSE t.Revision,
     Component |->
        IF Has(j, "component")
        THEN DecodeProcessorComponent(t.Component, j.component)
        ELSE t.Component]

DecodeConnectionHand(t, j) ==
    [Type |-> IF Has(j, "type") THEN j.type ELSE t.Type,
     Id |-> IF Has(j, "id") THEN j.id ELSE t.Id]

DecodeConnectionComponent(t, j) ==
    [Id |-> IF Has(j, "id") THEN j.id ELSE t.Id,
     ParentGroupId |->
        IF Has(j, "parentGroupId") THEN j.parentGroupId ELSE t.ParentGroupId,
     Source |->
        IF Has(j, "source") THEN DecodeConnectionHand(t.Source, j.source)
        ELSE t.Source,
     Destination |->
        IF Has(j, "destination")
        THEN DecodeConnectionHand(t.Destination, j.destination)
        ELSE t.Destination,
     SelectedRelationships |->
        IF Has(j, "selectedRelationships") THEN j.selectedRelationships
        ELSE t.SelectedRelationships,
     Bends |->
        IF Has(j, "bends")
        THEN [i \in DOMAIN j.bends |-> DecodePosition(ZeroPosition, j.bends[i])]
        ELSE t.Bends]

DecodeConnection(t, j) ==
    [Revision |->
        IF Has(j, "revision") THEN DecodeRevision(t.Revision, j.revision)
        ELSE t.Revision,
     Component |->
        IF Has(j, "component")
        THEN DecodeConnectionComponent(t.Component, j.component)
        ELSE t.Component]

Decode(target, j) ==
    CASE target.type = "ProcessGroup" ->
            Box("ProcessGroup", DecodeProcessGroup(target.value, j))
      [] target.type = "Processor" ->
            Box("Processor", DecodeProcessor(target.value, j))
      [] target.type = "Connection" ->
            Box("Connection", DecodeConnection(target.value, j))

-----------------------------------------------------------------------------
(* The HTTP exchange *)

NoBody == [present |-> FALSE]

NewRequest(method, url, bodyIn) ==
    [method |-> method, url |-> url,
     body |-> IF IsNil(bodyIn) THEN NoBody
              ELSE [present |-> TRUE, json |-> Encode(bodyIn)],
     contentType |-> IF IsNil(bodyIn) THEN ""
                     ELSE "application/json; charset=utf-8"]

\* a response body: well-formed JSON, or bytes that do not parse
Malformed == [wellFormed |-> FALSE]

WellFormed(j) == [wellFormed |-> TRUE, json |-> j]

\* http.NewRequest or c.Client.Do returned an error
TransportFailure == [failed |-> TRUE, StatusCode |-> 0, Body |-> Malformed]

Answer(status, body) == [failed |-> FALSE, StatusCode |-> status, Body |-> body]

\* JsonCall without the 404 case: 404 falls under the >= 300 failure
JsonCallNotFoundFails(method, url, bodyIn, bodyOut, resp) ==
    IF resp.failed
    THEN [err |-> TransportError, code |-> 0, bodyOut |-> bodyOut]
    ELSE IF resp.StatusCode >= 300
    THEN [err |-> StatusError(resp.StatusCode), code |-> resp.StatusCode,
          bodyOut |-> bodyOut]
    ELSE IF ~IsNil(bodyOut)
    THEN IF ~resp.Body.wellFormed
         THEN [err |-> DecodeError, code |-> resp.StatusCode,
               bodyOut |-> bodyOut]
         ELSE [err |-> NoError, code |-> resp.StatusCode,
               bodyOut |-> Decode(bodyOut, resp.Body.json)]
    ELSE [err |-> NoError, code |-> resp.StatusCode, bodyOut |-> bodyOut]

\* JsonCall decoding the body before it looks at the status
JsonCallDecodesFirst(method, url, bodyIn, bodyOut, resp) ==
    LET decoded == IF ~resp.failed /\ ~IsNil(bodyOut) /\ resp.Body.wellFormed
                   THEN Decode(bodyOut, resp.Body.json) ELSE bodyOut
    IN IF resp.failed
       THEN [err |-> TransportError, code |-> 0, bodyOut |-> bodyOut]
       ELSE IF resp.StatusCode = 404
       THEN [err |-> NoError, code |-> resp.StatusCode, bodyOut |-> decoded]
       ELSE IF resp.StatusCode >= 300
       THEN [err |-> StatusError(resp.StatusCode), code |-> resp.StatusCode,
             bodyOut |-> decoded]
       ELSE IF ~IsNil(bodyOut) /\ ~resp.Body.wellFormed
       THEN [err |-> DecodeError, code |-> resp.StatusCode, bodyOut |-> bodyOut]
       ELSE [err |-> NoError, code |-> resp.StatusCode, bodyOut |-> decoded]

JsonCall(method, url, bodyIn, bodyOut, resp) ==
    IF resp.failed
    THEN [err |-> TransportError, code |-> 0, bodyOut |-> bodyOut]
    ELSE IF resp.StatusCode = 404
    THEN [err |-> NoError, code |-> resp.StatusCode, bodyOut |-> bodyOut]
    ELSE IF resp.StatusCode >= 300
    THEN [err |-> StatusError(resp.StatusCode), code |-> resp.StatusCode,
          bodyOut |-> bodyOut]
    ELSE IF ~IsNil(bodyOut)
    THEN IF ~resp.Body.wellFormed
         THEN [err |-> DecodeError, code |-> resp.StatusCode,
               bodyOut |-> bodyOut]
         ELSE [err |-> NoError, code |-> resp.StatusCode,
               bodyOut |-> Decode(bodyOut, resp.Body.json)]
    ELSE [err |-> NoError, code |-> resp.StatusCode, bodyOut |-> bodyOut]

\* What one operation did: the request it built, what JsonCall returned, the
\* error it returned and the structure it left behind or returned.
Done(name, a, req, resp, jc, e, o) ==
    [op |-> name, arg |-> a, request |-> req, response |-> resp,
     jsonCall |-> jc, err |-> e, out |-> o]

-----------------------------------------------------------------------------
(* Process Group section *)

CreateProcessGroup(processGroup, resp) ==
    LET url == <<Host, ApiPath, "process-groups",
                 processGroup.Component.ParentGroupId, "process-groups">>
        in == Box("ProcessGroup", processGroup)
        jc == JsonCall("POST", url, in, in, resp)
    IN Done("CreateProcessGroup", in, NewRequest("POST", url, in), resp,
            jc, jc.err, jc.bodyOut)

\* GetProcessGroup without the 404 test: the zero structure is returned
GetProcessGroupIgnoresNotFound(processGroupId, resp) ==
    LET url == <<Host, ApiPath, "process-groups", processGroupId>>
        processGroup == Box("ProcessGroup", ZeroProcessGroup)
        jc == JsonCall("GET", url, Nil, processGroup, resp)
        ret == IF jc.err # NoError THEN [value |-> Nil, err |-> jc.err]
               ELSE [value |-> jc.bodyOut, err |-> NoError]
    IN Done("GetProcessGroup", Box("id", processGroupId),
            NewRequest("GET", url, Nil), resp, jc, ret.err, ret.value)

GetProcessGroup(processGroupId, resp) ==
    LET url == <<Host, ApiPath, "process-groups", processGroupId>>
        processGroup == Box("ProcessGroup", ZeroProcessGroup)
        jc == JsonCall("GET", url, Nil, processGroup, resp)
        ret == IF jc.err # NoError THEN [value |-> Nil, err |-> jc.err]
               ELSE IF 404 = jc.code THEN [value |-> Nil, err |-> NoError]
               ELSE [value |-> jc.bodyOut, err |-> NoError]
    IN Done("GetProcessGroup", Box("id", processGroupId),
            NewRequest("GET", url, Nil), resp, jc, ret.err, ret.value)

UpdateProcessGroup(processGroup, resp) ==
    LET url == <<Host, ApiPath, "process-groups", processGroup.Component.Id>>
        in == Box("ProcessGroup", processGroup)
        jc == JsonCall("PUT", url, in, in, resp)
    IN Done("UpdateProcessGroup", in, NewRequest("PUT", url, in), resp,
            jc, jc.err, jc.bodyOut)

DeleteProcessGroup(processGroupId, resp) ==
    LET url == <<Host, ApiPath, "process-groups", processGroupId>>
        jc == JsonCall("DELETE", url, Nil, Nil, resp)
    IN Done("DeleteProcessGroup", Box("id", processGroupId),
            NewRequest("DELETE", url, Nil), resp, jc, jc.err, Nil)

-----------------------------------------------------------------------------
(* Processor section *)

\* delete(m, k) for every k whose value is nil; ranging over a nil map does
\* nothing
CleanupNil(m) ==
    [isNil |-> m.isNil,
     kv |-> [k \in {x \in DOMAIN m.kv : m.kv[x] # NullValue} |-> m.kv[k]]]

\* ProcessorCleanupNilProperties deleting nothing
KeepNilProperties(p) == p

ProcessorCleanupNilProperties(p) ==
    [p EXCEPT !.Component.Config.Properties = CleanupNil(@)]

CreateProcessor(p, resp) ==
    LET url == <<Host, ApiPath, "process-groups",
                 p.Component.ParentGroupId, "processors">>
        in == Box("Processor", p)
        jc == JsonCall("POST", url, in, in, resp)
    IN Done("CreateProcessor", in, NewRequest("POST", url, in), resp, jc,
            jc.err,
            Box("Processor", ProcessorCleanupNilProperties(jc.bodyOut.value)))

\* the loop of GetProcessor without its test of AutoTerminate
AllRelationshipNames(rels) == [i \in DOMAIN rels |-> rels[i].Name]

\* names of the relationships whose AutoTerminate is set, in order
RECURSIVE AutoTerminated(_)
AutoTerminated(rels) ==
    IF rels = <<>> THEN <<>>
    ELSE IF Head(rels).AutoTerminate
    THEN <<Head(rels).Name>> \o AutoTerminated(Tail(rels))
    ELSE AutoTerminated(Tail(rels))

GetProcessor(processorId, resp) ==
    LET url == <<Host, ApiPath, "processors", processorId>>
        jc == JsonCall("GET", url, Nil, Box("Processor", ZeroProcessor), resp)
        clean == ProcessorCleanupNilProperties(jc.bodyOut.value)
        ret == IF jc.err # NoError THEN [value |-> Nil, err |-> jc.err]
               ELSE IF 404 = jc.code THEN [value |-> Nil, err |-> NoError]
               ELSE [value |->
                        Box("Processor",
                            [clean EXCEPT
                                !.Component.Config.AutoTerminatedRelationships =
                                    AutoTerminated(clean.Component.Relationships)]),
                     err |-> NoError]
    IN Done("GetProcessor", Box("id", processorId),
            NewRequest("GET", url, Nil), resp, jc, ret.err, ret.value)

UpdateProcessor(p, resp) ==
    LET url == <<Host, ApiPath, "processors", p.Component.Id>>
        in == Box("Processor", p)
        jc == JsonCall("PUT", url, in, in, resp)
    IN Done("UpdateProcessor", in, NewRequest("PUT", url, in), resp, jc,
            jc.err,
            Box("Processor", ProcessorCleanupNilProperties(jc.bodyOut.value)))

\* DeleteProcessor reporting an absent processor as a failure
DeleteProcessorStrict(processorId, resp) ==
    LET url == <<Host, ApiPath, "processors", processorId>>
        jc == JsonCall("DELETE", url, Nil, Nil, resp)
    IN Done("DeleteProcessor", Box("id", processorId),
            NewRequest("DELETE", url, Nil), resp, jc,
            IF jc.code = 404 THEN StatusError(404) ELSE jc.err, Nil)

DeleteProcessor(processorId, resp) ==
    LET url == <<Host, ApiPath, "processors", processorId>>
        jc == JsonCall("DELETE", url, Nil, Nil, resp)
    IN Done("DeleteProcessor", Box("id", processorId),
            NewRequest("DELETE", url, Nil), resp, jc, jc.err, Nil)

\* SetProcessorState storing the state without looking at the error
SetProcessorStateUnchecked(name, p, state, resp) ==
    LET stateUpdate ==
            [Revision |-> NewRevision(p.Revision.Version),
             Component |->
                [ZeroProcessorComponent EXCEPT
                    !.Id = p.Component.Id, !.State = state]]
        url == <<Host, ApiPath, "processors", p.Component.Id>>
        in == Box("Processor", stateUpdate)
        jc == JsonCall("PUT", url, in, Nil, resp)
    IN Done(name, Box("Processor", p), NewRequest("PUT", url, in), resp, jc,
            jc.err, Box("Processor", [p EXCEPT !.Component.State = state]))

SetProcessorState(name, p, state, resp) ==
    LET stateUpdate ==
            [Revision |-> NewRevision(p.Revision.Version),
             Component |->
                [ZeroProcessorComponent EXCEPT
                    !.Id = p.Component.Id, !.State = state]]
        url == <<Host, ApiPath, "processors", p.Component.Id>>
        in == Box("Processor", stateUpdate)
        jc == JsonCall("PUT", url, in, Nil, resp)
    IN Done(name, Box("Processor", p), NewRequest("PUT", url, in), resp, jc,
            jc.err,
            Box("Processor",
                IF jc.err = NoError THEN [p EXCEPT !.Component.State = state]
                ELSE p))

StartProcessor(p, resp) == SetProcessorState("StartProcessor", p, "RUNNING", resp)

StopProcessor(p, resp) == SetProcessorState("StopProcessor", p, "STOPPED", resp)

-----------------------------------------------------------------------------
(* Connection section *)

CreateConnection(connection, resp) ==
    LET url == <<Host, ApiPath, "process-groups",
                 connection.Component.ParentGroupId, "connections">>
        in == Box("Connection", connection)
        jc == JsonCall("POST", url, in, in, resp)
    IN Done("CreateConnection", in, NewRequest("POST", url, in), resp,
            jc, jc.err, jc.bodyOut)

GetConnection(connectionId, resp) ==
    LET url == <<Host, ApiPath, "connections", connectionId>>
        connection == Box("Connection", ZeroConnection)
        jc == JsonCall("GET", url, Nil, connection, resp)
        ret == IF jc.err # NoError THEN [value |-> Nil, err |-> jc.err]
               ELSE IF 404 = jc.code THEN [value |-> Nil, err |-> NoError]
               ELSE [value |-> jc.bodyOut, err |-> NoError]
    IN Done("GetConnection", Box("id", connectionId),
            NewRequest("GET", url, Nil), resp, jc, ret.err, ret.value)

UpdateConnection(connection, resp) ==
    LET url == <<Host, ApiPath, "connections", connection.Component.Id>>
        in == Box("Connection", connection)
        jc == JsonCall("PUT", url, in, in, resp)
    IN Done("UpdateConnection", in, NewRequest("PUT", url, in), resp,
            jc, jc.err, jc.bodyOut)

DeleteConnection(connectionId, resp) ==
    LET url == <<Host, ApiPath, "connections", connectionId>>
        jc == JsonCall("DELETE", url, Nil, Nil, resp)
    IN Done("DeleteConnection", Box("id", connectionId),
            NewRequest("DELETE", url, Nil), resp, jc, jc.err, Nil)

-----------------------------------------------------------------------------
(* Arguments the caller may pass *)

ProcessGroupIds == {"g1", "g2"}

ProcessorIds == {"p1", "p2"}

ConnectionIds == {"c1", "c2"}

ProcessGroups ==
    {[Revision |-> NewRevision(v),
      Component |-> [Id |-> id, ParentGroupId |-> "root", Name |-> "etl",
                     Position |-> [X |-> 1, Y |-> 2]]] :
        v \in Versions, id \in {"", "g1"}}

Connections ==
    {[Revision |-> NewRevision(v),
      Component |-> [Id |-> id, ParentGroupId |-> "root",
                     Source |-> [Type |-> "PROCESSOR", Id |-> "p1"],
                     Destination |-> [Type |-> "PROCESSOR", Id |-> "p2"],
                     SelectedRelationships |-> <<"success">>,
                     Bends |-> <<[X |-> 1, Y |-> 1]>>]] :
        v \in Versions, id \in {"", "c1"}}

\* every map over a subset of the keys, and the nil map
PropertyMaps ==
    {NilMap} \cup
    {MakeMap(f) : f \in UNION {[ks -> CallerValues] : ks \in SUBSET PropertyKeys}}

Relationship(name, auto) == [Name |-> name, AutoTerminate |-> auto]

\* relationships and auto-terminated names an in-memory processor may hold
HeldRelationships ==
    {[rels |-> <<>>, auto |-> <<>>],
     [rels |-> <<Relationship("success", TRUE), Relationship("failure", FALSE)>>,
      auto |-> <<"success">>],
     [rels |-> <<Relationship("success", FALSE)>>, auto |-> <<"failure">>]}

Processors ==
    {[Revision |-> NewRevision(v),
      Component |->
        [Id |-> id, ParentGroupId |-> "root", Name |-> "gen",
         Type |-> "GenerateFlowFile", Position |-> [X |-> 1, Y |-> 2],
         State |-> st,
         Config |-> [SchedulingStrategy |-> "TIMER_DRIVEN",
                     SchedulingPeriod |-> "1 sec",
                     ConcurrentlySchedulableTaskCount |-> 1,
                     Properties |-> m,
                     AutoTerminatedRelationships |-> r.auto],
         Relationships |-> r.rels]] :
        v \in Versions, id \in {"", "p1"}, st \in {"", "RUNNING", "STOPPED"},
        m \in PropertyMaps, r \in HeldRelationships}

-----------------------------------------------------------------------------
(* Responses the transport may deliver *)

StatusCodes == {200, 201, 299, 300, 404, 409, 500}

ProcessGroupEntities ==
    {[revision |-> [version |-> v],
      component |-> [id |-> "g1", parentGroupId |-> "root", name |-> n,
                     position |-> [x |-> 3, y |-> 4]]] :
        v \in 1 .. MaxVersion, n \in {"etl", "renamed"}}

ConnectionEntities ==
    {[revision |-> [version |-> v],
      component |-> [id |-> "c1", parentGroupId |-> "root",
                     source |-> [type |-> "PROCESSOR", id |-> "p1"],
                     destination |-> [type |-> "PROCESSOR", id |-> "p2"],
                     selectedRelationships |-> sel,
                     bends |-> <<>>]] :
        v \in 1 .. MaxVersion, sel \in {<<"success">>, <<"failure">>}}

JsonProperties ==
    {[null |-> TRUE, object |-> <<>>]} \cup
    {[null |-> FALSE, object |-> f] :
        f \in UNION {[ks -> ServerValues] : ks \in SUBSET PropertyKeys}}

JsonRelationship(name, auto) == [name |-> name, autoTerminate |-> auto]

\* every sequence of at most MaxRels relationships
RelationshipSeqs ==
    UNION {[1 .. n -> {JsonRelationship(name, auto) :
                        name \in RelNames, auto \in BOOLEAN}] :
            n \in 0 .. MaxRels}

\* the relationship lists carried by the responses to Create and Update
EchoedRelationships ==
    {<<>>, <<JsonRelationship("success", TRUE), JsonRelationship("failure", FALSE)>>}

\* autoTerminatedRelationships as the server may send it in the config
SentAutoTerminated == {<<>>, <<"failure">>}

ProcessorEntities(relationships) ==
    {[revision |-> [version |-> v],
      component |->
        [id |-> "p1", parentGroupId |-> "root", name |-> "gen",
         type |-> "GenerateFlowFile", position |-> [x |-> 3, y |-> 4],
         state |-> st,
         config |-> [schedulingStrategy |-> "TIMER_DRIVEN",
                     schedulingPeriod |-> "0 sec",
                     concurrentlySchedulableTaskCount |-> 1,
                     properties |-> props,
                     autoTerminatedRelationships |-> auto],
         relationships |-> rels]] :
        v \in 1 .. MaxVersion, st \in {"RUNNING", "STOPPED"},
        props \in JsonProperties, auto \in SentAutoTerminated,
        rels \in relationships}

\* Every status with a body of the resource's shape or with bytes that do not
\* parse, and the failure of the transport.  Status 200 ranges over all the
\* entities, the other statuses over one of them.
Responses(entities) ==
    {TransportFailure} \cup
    {Answer(200, WellFormed(e)) : e \in entities} \cup
    {Answer(s, b) : s \in StatusCodes,
                    b \in {Malformed, WellFormed(CHOOSE e \in entities : TRUE)}}

-----------------------------------------------------------------------------
(* One operation per step.  Calls are synchronous and the client keeps     *)
(* nothing from one call to the next: a call starts from the idle record   *)
(* and Return hands control back to the caller.                            *)

Idle == op = "none"

Record(d) ==
    /\ op' = d.op
    /\ arg' = d.arg
    /\ request' = d.request
    /\ response' = d.response
    /\ jsonCall' = d.jsonCall
    /\ err' = d.err
    /\ out' = d.out

Init ==
    /\ op = "none"
    /\ arg = Nil
    /\ request = NewRequest("", <<>>, Nil)
    /\ response = TransportFailure
    /\ jsonCall = [err |-> NoError, code |-> 0, bodyOut |-> Nil]
    /\ err = NoError
    /\ out = Nil
    /\ processor = ZeroProcessor
    /\ server = [exists |-> FALSE, version |-> 0, state |-> ""]

CallCreateProcessGroup ==
    /\ Idle
    /\ \E g \in ProcessGroups, r \in Responses(ProcessGroupEntities) :
            Record(CreateProcessGroup(g, r)) /\ UNCHANGED <<processor, server>>

CallGetProcessGroup ==
    /\ Idle
    /\ \E id \in ProcessGroupIds, r \in Responses(ProcessGroupEntities) :
            Record(GetProcessGroup(id, r)) /\ UNCHANGED <<processor, server>>

CallUpdateProcessGroup ==
    /\ Idle
    /\ \E g \in ProcessGroups, r \in Responses(ProcessGroupEntities) :
            Record(UpdateProcessGroup(g, r)) /\ UNCHANGED <<processor, server>>

CallDeleteProcessGroup ==
    /\ Idle
    /\ \E id \in ProcessGroupIds, r \in Responses(ProcessGroupEntities) :
            Record(DeleteProcessGroup(id, r)) /\ UNCHANGED <<processor, server>>

CallCreateProcessor ==
    /\ Idle
    /\ \E p \in Processors, r \in Responses(ProcessorEntities(EchoedRelationships)) :
            Record(CreateProcessor(p, r)) /\ UNCHANGED <<processor, server>>

CallGetProcessor ==
    /\ Idle
    /\ \E id \in ProcessorIds, r \in Responses(ProcessorEntities(RelationshipSeqs)) :
            Record(GetProcessor(id, r)) /\ UNCHANGED <<processor, server>>

CallUpdateProcessor ==
    /\ Idle
    /\ \E p \in Processors, r \in Responses(ProcessorEntities(EchoedRelationships)) :
            Record(UpdateProcessor(p, r)) /\ UNCHANGED <<processor, server>>

CallDeleteProcessor ==
    /\ Idle
    /\ \E id \in ProcessorIds, r \in Responses(ProcessorEntities(EchoedRelationships)) :
            Record(DeleteProcessor(id, r)) /\ UNCHANGED <<processor, server>>

CallStartProcessor ==
    /\ Idle
    /\ \E p \in Processors, r \in Responses(ProcessorEntities(EchoedRelationships)) :
            Record(StartProcessor(p, r)) /\ UNCHANGED <<processor, server>>

CallStopProcessor ==
    /\ Idle
    /\ \E p \in Processors, r \in Responses(ProcessorEntities(EchoedRelationships)) :
            Record(StopProcessor(p, r)) /\ UNCHANGED <<processor, server>>

CallCreateConnection ==
    /\ Idle
    /\ \E c \in Connections, r \in Responses(ConnectionEntities) :
            Record(CreateConnection(c, r)) /\ UNCHANGED <<processor, server>>

CallGetConnection ==
    /\ Idle
    /\ \E id \in ConnectionIds, r \in Responses(ConnectionEntities) :
            Record(GetConnection(id, r)) /\ UNCHANGED <<processor, server>>

CallUpdateConnection ==
    /\ Idle
    /\ \E c \in Connections, r \in Responses(ConnectionEntities) :
            Record(UpdateConnection(c, r)) /\ UNCHANGED <<processor, server>>

CallDeleteConnection ==
    /\ Idle
    /\ \E id \in ConnectionIds, r \in Responses(ConnectionEntities) :
            Record(DeleteConnection(id, r)) /\ UNCHANGED <<processor, server>>

Return ==
    /\ ~Idle
    /\ op' = "none"
    /\ arg' = Nil
    /\ request' = NewRequest("", <<>>, Nil)
    /\ response' = TransportFailure
    /\ jsonCall' = [err |-> NoError, code |-> 0, bodyOut |-> Nil]
    /\ err' = NoError
    /\ out' = Nil
    /\ UNCHANGED <<processor, server>>

Next ==
    \/ CallCreateProcessGroup
    \/ CallGetProcessGroup
    \/ CallUpdateProcessGroup
    \/ CallDeleteProcessGroup
    \/ CallCreateProcessor
    \/ CallGetProcessor
    \/ CallUpdateProcessor
    \/ CallDeleteProcessor
    \/ CallStartProcessor
    \/ CallStopProcessor
    \/ CallCreateConnection
    \/ CallGetConnection
    \/ CallUpdateConnection
    \/ CallDeleteConnection
    \/ Return

Spec == Init /\ [][Next]_vars

-----------------------------------------------------------------------------
(* A session: one caller that keeps its processor structure between calls, *)
(* and a server that holds one processor under a revision.  The server     *)
(* assigns a new version on every mutation it accepts and rejects a PUT    *)
(* whose version is not its current one.                                   *)

ServerProcessorId == "p1"

ServerStates ==
    [exists : BOOLEAN, version : Versions, state : {"", "RUNNING", "STOPPED"}]

\* the entity the server returns for the processor it holds
ServerEntity(srv) ==
    [revision |-> [version |-> srv.version],
     component |->
        [id |-> ServerProcessorId, parentGroupId |-> "root", name |-> "gen",
         type |-> "GenerateFlowFile", position |-> [x |-> 3, y |-> 4],
         state |-> srv.state,
         config |-> [schedulingStrategy |-> "TIMER_DRIVEN",
                     schedulingPeriod |-> "0 sec",
                     concurrentlySchedulableTaskCount |-> 1,
                     properties |->
                        [null |-> FALSE,
                         object |-> ("k1" :> "w" @@ "k2" :> NullValue)],
                     autoTerminatedRelationships |-> <<"success">>],
         relationships |-> <<JsonRelationship("success", TRUE)>>]]

SessionResponses ==
    {TransportFailure} \cup
    {Answer(s, Malformed) : s \in {400, 404, 409, 500}} \cup
    {Answer(s, WellFormed(ServerEntity(srv))) :
        s \in {200, 201}, srv \in ServerStates}

Accepted(srv, st) ==
    [exists |-> TRUE, version |-> srv.version + 1, state |-> st]

\* the server in state srv may answer req with resp and move to srv2
Serves(srv, req, resp, srv2) ==
    LET there == srv.exists /\ req.url[Len(req.url)] = ServerProcessorId
        unchanged == srv2 = srv
    IN \/ resp = TransportFailure /\ unchanged
       \/ resp = Answer(500, Malformed) /\ unchanged
       \/ /\ req.method = "POST"
          /\ \/ /\ ~srv.exists /\ srv.version < MaxVersion
                /\ srv2 = Accepted(srv, "STOPPED")
                /\ resp = Answer(201, WellFormed(ServerEntity(srv2)))
             \/ srv.exists /\ resp = Answer(409, Malformed) /\ unchanged
       \/ /\ req.method = "GET"
          /\ \/ there /\ resp = Answer(200, WellFormed(ServerEntity(srv))) /\ unchanged
             \/ ~there /\ resp = Answer(404, Malformed) /\ unchanged
       \/ /\ req.method = "PUT"
          /\ \/ ~there /\ resp = Answer(404, Malformed) /\ unchanged
             \/ /\ there
                /\ req.body.json.revision.version # srv.version
                /\ resp = Answer(409, Malformed) /\ unchanged
             \/ /\ there
                /\ req.body.json.revision.version = srv.version
                /\ srv.version < MaxVersion
                /\ srv2 = Accepted(srv,
                            IF Has(req.body.json.component, "state")
                            THEN req.body.json.component.state ELSE srv.state)
                /\ resp = Answer(200, WellFormed(ServerEntity(srv2)))
       \/ /\ req.method = "DELETE"
          /\ \/ ~there /\ resp = Answer(404, Malformed) /\ unchanged
             \/ there /\ resp = Answer(400, Malformed) /\ unchanged
             \/ /\ there
                /\ srv2 = [srv EXCEPT !.exists = FALSE]
                /\ resp = Answer(200, Malformed)

\* the structures a caller builds for a processor it is about to create
NewProcessors ==
    {p \in Processors :
        /\ p.Revision.Version = 0
        /\ p.Component.Id = ""
        /\ p.Component.State = ""
        /\ p.Component.Relationships = <<>>
        /\ p.Component.Config.Properties \in
                {NilMap, MakeMap("k1" :> "v"), MakeMap("k1" :> NullValue)}}

SessionCreateProcessor ==
    \E p \in NewProcessors, resp \in SessionResponses, srv2 \in ServerStates :
        LET d == CreateProcessor(p, resp)
        IN /\ Serves(server, d.request, resp, srv2)
           /\ Record(d)
           /\ processor' = d.out.value
           /\ server' = srv2

SessionGetProcessor ==
    \E resp \in SessionResponses, srv2 \in ServerStates :
        LET d == GetProcessor(processor.Component.Id, resp)
        IN /\ Serves(server, d.request, resp, srv2)
           /\ Record(d)
           /\ processor' = IF IsNil(d.out) THEN processor ELSE d.out.value
           /\ server' = srv2

SessionUpdateProcessor ==
    \E m \in {processor.Component.Config.Properties, MakeMap("k2" :> "v")},
       resp \in SessionResponses, srv2 \in ServerStates :
        LET p == [processor EXCEPT !.Component.Config.Properties = m]
            d == UpdateProcessor(p, resp)
        IN /\ Serves(server, d.request, resp, srv2)
           /\ Record(d)
           /\ processor' = d.out.value
           /\ server' = srv2

SessionDeleteProcessor ==
    \E resp \in SessionResponses, srv2 \in ServerStates :
        LET d == DeleteProcessor(processor.Component.Id, resp)
        IN /\ Serves(server, d.request, resp, srv2)
           /\ Record(d)
           /\ processor' = processor
           /\ server' = srv2

SessionStartProcessor ==
    \E resp \in SessionResponses, srv2 \in ServerStates :
        LET d == StartProcessor(processor, resp)
        IN /\ Serves(server, d.request, resp, srv2)
           /\ Record(d)
           /\ processor' = d.out.value
           /\ server' = srv2

SessionStopProcessor ==
    \E resp \in SessionResponses, srv2 \in ServerStates :
        LET d == StopProcessor(processor, resp)
        IN /\ Serves(server, d.request, resp, srv2)
           /\ Record(d)
           /\ processor' = d.out.value
           /\ server' = srv2

SessionNext ==
    \/ SessionCreateProcessor
    \/ SessionGetProcessor
    \/ SessionUpdateProcessor
    \/ SessionDeleteProcessor
    \/ SessionStartProcessor
    \/ SessionStopProcessor

SessionSpec == Init /\ [][SessionNext]_vars

-----------------------------------------------------------------------------
(* Vocabulary of the properties *)

Called == op # "none"

CreateOps == {"CreateProcessGroup", "CreateProcessor", "CreateConnection"}

GetOps == {"GetProcessGroup", "GetProcessor", "GetConnection"}

UpdateOps == {"UpdateProcessGroup", "UpdateProcessor", "UpdateConnection"}

DeleteOps == {"DeleteProcessGroup", "DeleteProcessor", "DeleteConnection"}

StateOps == {"StartProcessor", "StopProcessor"}

TransportFailed == response.failed

NotFound == ~response.failed /\ response.StatusCode = 404

StatusFailure ==
    ~response.failed /\ response.StatusCode >= 300 /\ response.StatusCode # 404

Success == ~response.failed /\ response.StatusCode < 300

\* the output target the operation handed to JsonCall, before the call
OutputTarget ==
    CASE op \in CreateOps \cup UpdateOps -> arg
      [] op = "GetProcessGroup" -> Box("ProcessGroup", ZeroProcessGroup)
      [] op = "GetProcessor" -> Box("Processor", ZeroProcessor)
      [] op = "GetConnection" -> Box("Connection", ZeroConnection)
      [] OTHER -> Nil

\* structure x carries the revision and the id of the JSON entity j
Carries(x, j) ==
    /\ ~IsNil(x)
    /\ x.value.Revision.Version = j.revision.version
    /\ x.value.Component.Id = j.component.id

TargetState == IF op = "StartProcessor" THEN "RUNNING" ELSE "STOPPED"

HasNullEntry(m) == \E k \in DOMAIN m.kv : m.kv[k] = NullValue

-----------------------------------------------------------------------------
(* Properties *)

\* C1: a state transition that returns no error leaves the in-memory
\* processor equal to what it was except that Component.State is the target
\* state (RUNNING for start, STOPPED for stop); one that returns an error
\* leaves the in-memory processor, Component.State included, as it was.
C1_StateTransitionFrame ==
    op \in StateOps =>
        IF err = NoError
        THEN /\ out.value.Component.State = TargetState
             /\ out.value = [arg.value EXCEPT !.Component.State = TargetState]
        ELSE out.value = arg.value

C1_Witness ==
    /\ op = "StopProcessor"
    /\ Success
    /\ err = NoError
    /\ arg.value.Component.State = "RUNNING"
    /\ arg.value.Component.Relationships # <<>>
    /\ HasNullEntry(arg.value.Component.Config.Properties)
    /\ out.value.Component.State = "STOPPED"

\* C2: every PUT and every DELETE request carries a revision version, and it
\* is the version held in the structure the caller passed.
C2_MutationsCarryRevision ==
    request.method \in {"PUT", "DELETE"} =>
        /\ request.body.present
        /\ Has(request.body.json, "revision")
        /\ arg.type # "id" =>
                request.body.json.revision.version = arg.value.Revision.Version

\* C3: JsonCall classifies every response: a transport failure gives an error
\* and code 0; 404 gives no error, code 404 and an untouched output target;
\* any other status >= 300 gives an error carrying the status and that code;
\* a status < 300 gives that code and, with an output target, the decoded
\* body in the target or a decode error when the body does not parse.
C3_JsonCallClassifies ==
    Called =>
        /\ TransportFailed =>
                /\ jsonCall.err = TransportError
                /\ jsonCall.code = 0
        /\ NotFound =>
                /\ jsonCall.err = NoError
                /\ jsonCall.code = 404
                /\ jsonCall.bodyOut = OutputTarget
        /\ StatusFailure =>
                /\ jsonCall.err = StatusError(response.StatusCode)
                /\ jsonCall.code = response.StatusCode
        /\ Success =>
                /\ jsonCall.code = response.StatusCode
                /\ IsNil(OutputTarget) =>
                        jsonCall.err = NoError /\ IsNil(jsonCall.bodyOut)
                /\ ~IsNil(OutputTarget) =>
                        IF response.Body.wellFormed
                        THEN /\ jsonCall.err = NoError
                             /\ Carries(jsonCall.bodyOut, response.Body.json)
                        ELSE jsonCall.err = DecodeError

C3_Witness ==
    /\ op = "GetProcessor"
    /\ NotFound
    /\ response.Body.wellFormed
    /\ jsonCall.err = NoError
    /\ jsonCall.code = 404
    /\ jsonCall.bodyOut = Box("Processor", ZeroProcessor)

\* C4: a Get returns no resource and no error on 404, no resource and an
\* error on any other status >= 300 and on a transport failure, and the
\* decoded resource and no error on a status < 300 with a well-formed body;
\* it never returns both a resource and an error.
C4_GetOutcomes ==
    op \in GetOps =>
        /\ NotFound => IsNil(out) /\ err = NoError
        /\ (TransportFailed \/ StatusFailure) => IsNil(out) /\ err # NoError
        /\ (Success /\ response.Body.wellFormed) =>
                err = NoError /\ Carries(out, response.Body.json)
        /\ ~(~IsNil(out) /\ err # NoError)

C4_Witness ==
    /\ op = "GetProcessGroup"
    /\ NotFound
    /\ response.Body.wellFormed
    /\ IsNil(out)
    /\ err = NoError

\* C5: after CreateProcessor, GetProcessor and UpdateProcessor, whatever the
\* response and whether or not the call failed, the properties of the
\* processor the caller sees hold no null value, and every non-null property
\* of a decoded response is there with the value the response gave it.
C5_NoNullProperties ==
    (op \in {"CreateProcessor", "GetProcessor", "UpdateProcessor"} /\ ~IsNil(out)) =>
        LET kv == out.value.Component.Config.Properties.kv
            decoded == Success /\ response.Body.wellFormed
            sent == response.Body.json.component.config.properties
        IN /\ \A k \in DOMAIN kv : kv[k] # NullValue
           /\ (decoded /\ ~sent.null) =>
                \A k \in DOMAIN sent.object :
                    sent.object[k] # NullValue =>
                        k \in DOMAIN kv /\ kv[k] = sent.object[k]

C5_Witness ==
    /\ op = "UpdateProcessor"
    /\ Success
    /\ err = NoError
    /\ arg.value.Component.Config.Properties = MakeMap("k1" :> "v" @@ "k2" :> "v")
    /\ response.Body.json.component.config.properties.object =
            ("k1" :> NullValue @@ "k2" :> "w")
    /\ out.value.Component.Config.Properties = MakeMap("k2" :> "w")

\* C6: the processor a successful GetProcessor returns has as its
\* Config.AutoTerminatedRelationships exactly the names of the relationships
\* of the response whose autoTerminate is true, in their order, whatever
\* autoTerminatedRelationships the response carried in its config.
C6_AutoTerminatedProjection ==
    (op = "GetProcessor" /\ ~IsNil(out)) =>
        LET rels == response.Body.json.component.relationships
            auto == out.value.Component.Config.AutoTerminatedRelationships
            idx == {i \in DOMAIN rels : rels[i].autoTerminate}
            Nth(i) == CHOOSE j \in idx : Cardinality({k \in idx : k <= j}) = i
        IN /\ DOMAIN auto = 1 .. Cardinality(idx)
           /\ \A i \in DOMAIN auto : auto[i] = rels[Nth(i)].name
           /\ DOMAIN out.value.Component.Relationships = DOMAIN rels

C6_Witness ==
    /\ op = "GetProcessor"
    /\ err = NoError
    /\ ~IsNil(out)
    /\ response.Body.json.component.relationships =
            <<JsonRelationship("failure", TRUE), JsonRelationship("success", TRUE)>>
    /\ response.Body.json.component.config.autoTerminatedRelationships = <<"failure">>
    /\ out.value.Component.Config.AutoTerminatedRelationships = <<"failure", "success">>

\* C7: the body of the PUT sent by StartProcessor and StopProcessor holds the
\* revision with the caller's version and a component with the id and the
\* target state and no other member.
C7_StateUpdateBodyIsMinimal ==
    op \in StateOps =>
        /\ request.method = "PUT"
        /\ request.body.present
        /\ DOMAIN request.body.json = {"revision", "component"}
        /\ request.body.json.revision.version = arg.value.Revision.Version
        /\ DOMAIN request.body.json.component \subseteq {"id", "state"}

\* C8, as stated: on a status >= 300 other than 404 the operation returns an
\* error carrying the status, a Create or Update leaves the structure it was
\* given exactly as it was, and a Get returns no structure.
C8_FailureLeavesStructure ==
    (Called /\ StatusFailure) =>
        /\ err = StatusError(response.StatusCode)
        /\ op \in CreateOps \cup UpdateOps => out = arg
        /\ op \in GetOps => IsNil(out)

\* C8, amended: on a status >= 300 other than 404 the operation returns an
\* error carrying the status and a Get returns no structure; a Create or
\* Update of a process group or connection leaves the structure it was given
\* exactly as it was, and CreateProcessor and UpdateProcessor leave it as it
\* was except that the entries of its properties whose value is null are
\* removed.
C8_FailureStripsOnlyNulls ==
    (Called /\ StatusFailure) =>
        /\ err = StatusError(response.StatusCode)
        /\ op \in GetOps => IsNil(out)
        /\ op \in (CreateOps \cup UpdateOps) \ {"CreateProcessor", "UpdateProcessor"} =>
                out = arg
        /\ op \in {"CreateProcessor", "UpdateProcessor"} =>
                LET before == arg.value.Component.Config.Properties.kv
                    after == out.value.Component.Config.Properties.kv
                IN /\ out.value =
                        [arg.value EXCEPT !.Component.Config.Properties.kv = after]
                   /\ DOMAIN after = {k \in DOMAIN before : before[k] # NullValue}
                   /\ \A k \in DOMAIN after : after[k] = before[k]

C8_Witness ==
    /\ op = "CreateProcessor"
    /\ StatusFailure
    /\ response.StatusCode = 500
    /\ response.Body.wellFormed
    /\ err = StatusError(500)
    /\ arg.value.Component.Config.Properties = MakeMap("k1" :> NullValue @@ "k2" :> "v")
    /\ out.value.Component.Config.Properties = MakeMap("k2" :> "v")

\* C9: a Delete answered 404 returns no error; a Delete answered any other
\* status >= 300, or whose transport fails, returns an error.
C9_DeleteOutcomes ==
    op \in DeleteOps =>
        /\ NotFound => err = NoError
        /\ (StatusFailure \/ TransportFailed) => err # NoError

C9_Witness ==
    /\ op = "DeleteProcessor"
    /\ NotFound
    /\ err = NoError

\* C10: after a Create, Update, Start or Stop that the server accepted, the
\* revision held in the caller's processor is the server's current revision
\* of that processor.
C10_HeldRevisionIsCurrent ==
    (/\ op \in {"CreateProcessor", "UpdateProcessor"} \cup StateOps
     /\ Success
     /\ err = NoError)
        => processor.Revision.Version = server.version

====
